---- MODULE Spec2Model ----
(***************************************************************************)
(* Model of the wazo-grandstream2 provisioning plugin                      *)
(* (plugins/wazo-grandstream2/1.0.11.48/common.py).                        *)
(*                                                                         *)
(* Python values are modelled as follows.                                  *)
(*   - a dict is a function whose DOMAIN is the set of its keys;           *)
(*   - a dict whose iteration order matters (funckeys) is the sequence of  *)
(*     its (key, value) items in the order iteritems() yields them;        *)
(*   - a string that the code inspects character by character (a MAC, a    *)
(*     version, an IP address, a User-Agent word) is a sequence of         *)
(*     one-character strings; a string that is only compared or looked up  *)
(*     is a TLA+ string;                                                   *)
(*   - a call returns a record whose field exc names the exception that    *)
(*     left the call ("none" when it returned normally).                   *)
(***************************************************************************)
EXTENDS Integers, Sequences, FiniteSets, TLC

VARIABLES
    call,        \* the arguments of the call under study
    ret,         \* what the call returned or raised; NotCalled before it ran
    raw_config,  \* the mapping the enrichment steps update in place
    pending,     \* the enrichment steps not applied to raw_config yet
    files,       \* the file system: path |-> content
    configs,     \* per device, the raw_config object of its latest configure call
    last_op      \* per device, its latest call that returned normally

vars == <<call, ret, raw_config, pending, files, configs, last_op>>

NotCalled == [exc |-> "not called"]
None == "<None>"

(***************************************************************************)
(* Dict helpers                                                            *)
(***************************************************************************)
EmptyDict == [x \in {} |-> None]

Has(d, k) == k \in DOMAIN d

Put(d, k, v) == [x \in (DOMAIN d) \cup {k} |-> IF x = k THEN v ELSE d[x]]

\* dict.get(k): None when the key is absent
Get(d, k) == IF k \in DOMAIN d THEN d[k] ELSE None

(***************************************************************************)
(* Module tables                                                           *)
(***************************************************************************)
FUNCKEY_TYPES ==
    [t \in {"speeddial", "blf", "park", "default", "disabled"} |->
        CASE t = "speeddial" -> 0
          [] t = "blf"       -> 1
          [] t = "park"      -> 9
          [] t = "default"   -> 31
          [] t = "disabled"  -> 0 - 1]

\* int(funckey_no): the value of a string of decimal digits
RECURSIVE int(_)
int(digits) ==
    IF digits = <<>> THEN 0
    ELSE 10 * int(SubSeq(digits, 1, Len(digits) - 1)) + digits[Len(digits)]

\* u'P{}'.format(n)
PCode(n) == <<"P", n>>

IntVal(n) == <<"int", n>>
StrVal(s) == <<"str", s>>

(***************************************************************************)
(* _add_mpk                                                                *)
(***************************************************************************)
Unbound == [bound |-> FALSE]

\* mpk_ids with the first range closed one key too late (i <= 8 for i < 8)
mpk_ids_late(model, i, ids) ==
    IF model = "GXP2160" \/ model = "GXP2130" THEN
        IF i <= 8 THEN
            [bound |-> TRUE, key_mode_id |-> 323 + (i - 1), account_id |-> 301 + (i - 1),
             name_id |-> 302 + (i - 1), value_id |-> 303 + (i - 1)]
        ELSE IF i <= 18 THEN
            [bound |-> TRUE, key_mode_id |-> 353 + (i - 8) * 4, account_id |-> 354 + (i - 8) * 4,
             name_id |-> 355 + (i - 8) * 4, value_id |-> 356 + (i - 8) * 4]
        ELSE
            [bound |-> TRUE, key_mode_id |-> 1440 + (i - 19) * 4, account_id |-> 1441 + (i - 19) * 4,
             name_id |-> 1442 + (i - 19) * 4, value_id |-> 1443 + (i - 19) * 4]
    ELSE IF model = "GXP2170" \/ model = "GXP2140" THEN
        [bound |-> TRUE, key_mode_id |-> 23000 + ((5 * i) - 5), account_id |-> 23001 + ((5 * i) - 5),
         name_id |-> 23002 + ((5 * i) - 5), value_id |-> 23003 + ((5 * i) - 5)]
    ELSE ids

\* The assignments of key_mode_id, account_id, name_id, value_id made for one
\* key; ids is their value before the iteration (locals outlive an iteration).
mpk_ids(model, i, ids) ==
    IF model = "GXP2160" \/ model = "GXP2130" THEN
        IF i < 8 THEN
            [bound |-> TRUE, key_mode_id |-> 323 + (i - 1), account_id |-> 301 + (i - 1),
             name_id |-> 302 + (i - 1), value_id |-> 303 + (i - 1)]
        ELSE IF i >= 8 /\ i <= 18 THEN
            [bound |-> TRUE, key_mode_id |-> 353 + (i - 8) * 4, account_id |-> 354 + (i - 8) * 4,
             name_id |-> 355 + (i - 8) * 4, value_id |-> 356 + (i - 8) * 4]
        ELSE IF i >= 19 THEN
            [bound |-> TRUE, key_mode_id |-> 1440 + (i - 19) * 4, account_id |-> 1441 + (i - 19) * 4,
             name_id |-> 1442 + (i - 19) * 4, value_id |-> 1443 + (i - 19) * 4]
        ELSE ids
    ELSE IF model = "GXP2170" \/ model = "GXP2140" THEN
        [bound |-> TRUE, key_mode_id |-> 23000 + ((5 * i) - 5), account_id |-> 23001 + ((5 * i) - 5),
         name_id |-> 23002 + ((5 * i) - 5), value_id |-> 23003 + ((5 * i) - 5)]
    ELSE ids

\* The pairs appended for one key whose type is supported
mpk_pairs(funckey_dict, ids) ==
    <<  <<PCode(ids.key_mode_id), IntVal(FUNCKEY_TYPES[funckey_dict["type"]])>>,
        <<PCode(ids.account_id), IntVal(funckey_dict["line"] - 1)>>  >>
    \o (IF Has(funckey_dict, "label")
        THEN << <<PCode(ids.name_id), StrVal(funckey_dict["label"])>> >>
        ELSE <<>>)
    \o << <<PCode(ids.value_id), StrVal(funckey_dict["value"])>> >>

\* The for loop over raw_config[u'funckeys'].iteritems(), from item n on
RECURSIVE mpk_loop(_, _, _, _, _)
mpk_loop(items, n, model, ids, lines) ==
    IF n > Len(items) THEN [exc |-> "none", lines |-> lines]
    ELSE
        LET i_funckey_no == int(items[n][1])
            funckey_dict == items[n][2]
            new_ids      == mpk_ids(model, i_funckey_no, ids)
        IN  IF (model = "GXP2160" \/ model = "GXP2130")
               /\ (  (model = "GXP2160" /\ i_funckey_no > 24)
                  \/ (model = "GXP2130" /\ i_funckey_no > 8))
            THEN [exc |-> "none", lines |-> lines]                     \* break
            ELSE IF model = "GXP2135"
            THEN mpk_loop(items, n + 1, model, ids, lines)             \* continue
            ELSE IF funckey_dict["type"] \notin DOMAIN FUNCKEY_TYPES
            THEN mpk_loop(items, n + 1, model, new_ids, lines)         \* continue
            ELSE IF ~new_ids.bound
            THEN [exc |-> "UnboundLocalError", lines |-> lines]
            ELSE mpk_loop(items, n + 1, model, new_ids,
                          lines \o mpk_pairs(funckey_dict, new_ids))

_add_mpk(rc, model) ==
    IF ~Has(rc, "funckeys")
    THEN [exc |-> "KeyError", raw_config |-> rc]
    ELSE LET r == mpk_loop(rc["funckeys"], 1, model, Unbound, <<>>)
         IN  IF r.exc # "none"
             THEN [exc |-> r.exc, raw_config |-> rc]
             ELSE [exc |-> "none", raw_config |-> Put(rc, "XX_mpk", r.lines)]

(***************************************************************************)
(* The other enrichment steps                                              *)
(***************************************************************************)
TZ_NAME == [z \in {"Europe/Paris"} |-> "CET-1CEST-2,M3.5.0/02:00:00,M10.5.0/03:00:00"]

LOCALE ==
    [l \in {"de_DE", "es_ES", "fr_FR", "fr_CA", "it_IT", "nl_NL", "en_US"} |->
        CASE l = "de_DE" -> "de"
          [] l = "es_ES" -> "es"
          [] l = "fr_FR" -> "fr"
          [] l = "fr_CA" -> "fr"
          [] l = "it_IT" -> "it"
          [] l = "nl_NL" -> "nl"
          [] l = "en_US" -> "en"]

\* mode: (in audio, in RTP, in SIP)
DTMF_MODES ==
    [m \in {"RTP-in-band", "RTP-out-of-band", "SIP-INFO"} |->
        CASE m = "RTP-in-band"     -> <<"Yes", "Yes", "No">>
          [] m = "RTP-out-of-band" -> <<"No", "Yes", "No">>
          [] m = "SIP-INFO"        -> <<"No", "No", "Yes">>]

SIP_TRANSPORTS ==
    [t \in {"udp", "tcp", "tls"} |->
        CASE t = "udp" -> "UDP"
          [] t = "tcp" -> "TCP"
          [] t = "tls" -> "TlsOrTcp"]

Ok(rc) == [exc |-> "none", raw_config |-> rc]
Raise(e, rc) == [exc |-> e, raw_config |-> rc]

\* Every line of the inputs carries a password.
_check_lines_password(rc) ==
    IF ~Has(rc, "sip_lines") THEN Raise("KeyError", rc)
    ELSE LET lines == rc["sip_lines"]
         IN  Ok(Put(rc, "sip_lines",
                    [l \in DOMAIN lines |->
                        IF lines[l]["password"] = "autoprov"
                        THEN [lines[l] EXCEPT !["password"] = ""]
                        ELSE lines[l]]))

_add_timezone(rc) ==
    IF Has(rc, "timezone") /\ rc["timezone"] \in DOMAIN TZ_NAME
    THEN Ok(Put(rc, "XX_timezone", TZ_NAME[rc["timezone"]]))
    ELSE Ok(Put(rc, "timezone", TZ_NAME["Europe/Paris"]))

_add_locale(rc) ==
    LET locale == Get(rc, "locale")
    IN  IF locale \in DOMAIN LOCALE
        THEN Ok(Put(rc, "XX_locale", LOCALE[locale]))
        ELSE Ok(rc)

\* _add_fkeys storing its list under the key of _add_mpk
_add_fkeys_as_mpk(rc) ==
    IF ~Has(rc, "funckeys") THEN Raise("KeyError", rc)
    ELSE Ok(Put(rc, "XX_mpk", <<>>))

\* The body of the loop is a string literal: the loop only traverses funckeys.
_add_fkeys(rc) ==
    IF ~Has(rc, "funckeys") THEN Raise("KeyError", rc)
    ELSE Ok(Put(rc, "XX_fkeys", <<>>))

\* The body is a string literal: no key is read.
_add_v2_fkeys(rc, model) == Ok(Put(rc, "XX_v2_fkeys", <<>>))

\* str.split(sep) of a string of characters
RECURSIVE split(_, _)
split(str, sep) ==
    IF \A k \in 1..Len(str) : str[k] # sep THEN <<str>>
    ELSE LET k == CHOOSE k \in 1..Len(str) :
                      str[k] = sep /\ \A j \in 1..(k - 1) : str[j] # sep
         IN  <<SubSeq(str, 1, k - 1)>> \o split(SubSeq(str, k + 1, Len(str)), sep)

\* u'XX_dns_%s' % part_nb
XX_dns(part_nb) ==
    <<"XX_dns_1", "XX_dns_2", "XX_dns_3", "XX_dns_4", "XX_dns_5", "XX_dns_6">>[part_nb]

RECURSIVE dns_loop(_, _, _)
dns_loop(rc, dns_parts, part_nb) ==
    IF part_nb > Len(dns_parts) THEN rc
    ELSE dns_loop(Put(rc, XX_dns(part_nb), dns_parts[part_nb]), dns_parts, part_nb + 1)

_add_dns(rc) ==
    IF Has(rc, "dns_enabled") /\ rc["dns_enabled"]
    THEN IF ~Has(rc, "dns_ip") THEN Raise("KeyError", rc)
         ELSE Ok(dns_loop(rc, split(rc["dns_ip"], "."), 1))
    ELSE Ok(rc)

_add_dtmf_mode(rc) ==
    IF Has(rc, "sip_dtmf_mode") /\ rc["sip_dtmf_mode"] # ""
    THEN IF rc["sip_dtmf_mode"] \notin DOMAIN DTMF_MODES THEN Raise("KeyError", rc)
         ELSE LET dtmf_info == DTMF_MODES[rc["sip_dtmf_mode"]]
              IN  Ok(Put(Put(Put(rc, "XX_dtmf_in_audio", dtmf_info[1]),
                                 "XX_dtmf_in_rtp", dtmf_info[2]),
                                 "XX_dtmf_in_sip", dtmf_info[3]))
    ELSE Ok(rc)

_add_sip_transport(rc) ==
    LET sip_transport == Get(rc, "sip_transport")
    IN  IF sip_transport \in DOMAIN SIP_TRANSPORTS
        THEN Ok(Put(rc, "XX_sip_transport", SIP_TRANSPORTS[sip_transport]))
        ELSE Ok(rc)

(***************************************************************************)
(* configure: the enrichment steps in the order configure calls them       *)
(***************************************************************************)
ApplyStep(st, rc, model) ==
    CASE st = "_check_lines_password" -> _check_lines_password(rc)
      [] st = "_add_sip_transport"    -> _add_sip_transport(rc)
      [] st = "_add_timezone"         -> _add_timezone(rc)
      [] st = "_add_locale"           -> _add_locale(rc)
      [] st = "_add_dtmf_mode"        -> _add_dtmf_mode(rc)
      [] st = "_add_fkeys"            -> _add_fkeys(rc)
      [] st = "_add_mpk"              -> _add_mpk(rc, model)
      [] st = "_add_v2_fkeys"         -> _add_v2_fkeys(rc, model)
      [] st = "_add_dns"              -> _add_dns(rc)

\* The statement after r: skipped when r raised (the exception leaves
\* configure), else run on the mapping r left.  r is evaluated once.
next_statement(r, st, model) ==
    CHOOSE y \in { IF x.exc # "none" THEN x ELSE ApplyStep(st, x.raw_config, model) :
                    x \in {r} } : TRUE

enrich(rc, model) ==
    next_statement(next_statement(next_statement(next_statement(
    next_statement(next_statement(next_statement(next_statement(
        _check_lines_password(rc),
        "_add_sip_transport", model),
        "_add_timezone", model),
        "_add_locale", model),
        "_add_dtmf_mode", model),
        "_add_fkeys", model),
        "_add_mpk", model),
        "_add_v2_fkeys", model),
        "_add_dns", model)

\* format_mac(mac, separator='', uppercase=False) of a normalized MAC
format_mac(mac) == SelectSeq(mac, LAMBDA c : c # ":")

\* The file name without the device's MAC
_dev_specific_filename_generic(device) == <<"c", "f", "g", ".", "x", "m", "l">>

\* KeyError when the device has no mac
_dev_specific_filename(device) ==
    <<"c", "f", "g">> \o format_mac(device["mac"]) \o <<".", "x", "m", "l">>

\* os.path.join(self._tftpboot_dir, filename), _tftpboot_dir being <tftpboot>/Grandstream
tftpboot_path(filename) == <<"Grandstream", filename>>

_check_config(rc) == IF ~Has(rc, "http_port") THEN "RawConfigError" ELSE "none"

_check_device(device) == IF ~Has(device, "mac") THEN "Exception" ELSE "none"

\* _check_device before _check_config
precheck_device_first(device, rc) ==
    IF _check_device(device) # "none" THEN _check_device(device)
    ELSE _check_config(rc)

\* The two checks that open configure
precheck(device, rc) ==
    IF _check_config(rc) # "none" THEN _check_config(rc)
    ELSE _check_device(device)

\* The host's template helper: the template found for the device, and what
\* dump() writes for a template and a context
get_dev_template(filename, device) == <<"template", filename>>
render(tpl, context) == [tpl |-> tpl, context |-> context]

\* configure on the file system fs
configure(device, rc, fs) ==
    IF precheck(device, rc) # "none"
    THEN [exc |-> precheck(device, rc), raw_config |-> rc, rendered |-> FALSE, files |-> fs]
    ELSE LET e == enrich(rc, Get(device, "model"))
         IN  IF e.exc # "none"
             THEN [exc |-> e.exc, raw_config |-> e.raw_config, rendered |-> FALSE, files |-> fs]
             ELSE LET filename == _dev_specific_filename(device)
                      tpl      == get_dev_template(filename, device)
                      path     == tftpboot_path(filename)
                  IN  [exc |-> "none", raw_config |-> e.raw_config, rendered |-> TRUE,
                       files |-> Put(fs, path, render(tpl, e.raw_config))]

\* os.remove raises OSError on a missing file; the handler logs it
_remove_configuration_file(device, fs) ==
    IF ~Has(device, "mac") THEN [exc |-> "KeyError", files |-> fs]
    ELSE LET path == tftpboot_path(_dev_specific_filename(device))
         IN  IF Has(fs, path)
             THEN [exc |-> "none", files |-> [x \in (DOMAIN fs) \ {path} |-> fs[x]]]
             ELSE [exc |-> "none", files |-> fs]

deconfigure(device, fs) == _remove_configuration_file(device, fs)

(***************************************************************************)
(* Inputs of _add_mpk                                                      *)
(***************************************************************************)
MaxKeys == 2

\* Device models: the five the plugin names, one it does not, and no model
Models == {"GXP2130", "GXP2140", "GXP2160", "GXP2170", "GXP2135", "GXP1405", None}

\* Function-key numbers (decimal strings) around every boundary of _add_mpk
KeyNos == {<<1>>, <<2>>, <<7>>, <<8>>, <<1, 8>>, <<1, 9>>, <<2, 4>>, <<2, 5>>}

FunckeyDicts ==
    { [type |-> "speeddial", line |-> 1, label |-> "Alice", value |-> "1001"],
      [type |-> "blf", line |-> 2, value |-> "1002"],
      [type |-> "park", line |-> 2, label |-> "Park", value |-> "700"],
      [type |-> "default", line |-> 1, value |-> ""],
      [type |-> "disabled", line |-> 1, label |-> "", value |-> ""],
      [type |-> "conference", line |-> 1, label |-> "Conf", value |-> "800"] }

\* The items of a funckeys dict in every order iteritems() may yield them
FunckeyItems ==
    { s \in UNION { [1..n -> KeyNos \X FunckeyDicts] : n \in 0..MaxKeys } :
        \A a, b \in 1..Len(s) : a # b => s[a][1] # s[b][1] }

InitMpk ==
    /\ call \in { [fn |-> "_add_mpk", raw_config |-> [funckeys |-> f], model |-> m] :
                    f \in FunckeyItems, m \in Models }
    /\ ret = NotCalled
    /\ raw_config = EmptyDict
    /\ pending = {}
    /\ files = EmptyDict
    /\ configs = <<>>
    /\ last_op = <<>>

AddMpk ==
    /\ call.fn = "_add_mpk"
    /\ ret = NotCalled
    /\ ret' = _add_mpk(call.raw_config, call.model)
    /\ UNCHANGED <<call, raw_config, pending, files, configs, last_op>>

NextMpk == AddMpk

SpecMpk == InitMpk /\ [][NextMpk]_vars

(***************************************************************************)
(* Properties of _add_mpk                                                  *)
(***************************************************************************)
MpkReturned == call.fn = "_add_mpk" /\ ret.exc = "none"
MpkItems == call.raw_config["funckeys"]
MpkLines == ret.raw_config["XX_mpk"]
Codes(lines) == { lines[k][1] : k \in DOMAIN lines }

\* The range of key indices the plugin documents for a model
InRange(model, i) ==
    CASE model = "GXP2130" -> i \in 1..8
      [] model = "GXP2160" -> i \in 1..24
      [] model = "GXP2135" -> FALSE
      [] OTHER             -> i >= 1

\* The four parameter IDs <<key-mode, account, label, value>> of key i
DocIds(model, i) ==
    IF model \in {"GXP2130", "GXP2160"} THEN
        CASE i \in 1..7  -> <<323 + (i - 1), 301 + (i - 1), 302 + (i - 1), 303 + (i - 1)>>
          [] i \in 8..18 -> <<353 + 4 * (i - 8), 354 + 4 * (i - 8), 355 + 4 * (i - 8), 356 + 4 * (i - 8)>>
          [] OTHER       -> <<1440 + 4 * (i - 19), 1441 + 4 * (i - 19), 1442 + 4 * (i - 19), 1443 + 4 * (i - 19)>>
    ELSE <<23000 + 5 * (i - 1), 23001 + 5 * (i - 1), 23002 + 5 * (i - 1), 23003 + 5 * (i - 1)>>

DocPairs(model, item) ==
    LET ids == DocIds(model, int(item[1]))
        fk  == item[2]
    IN  IF "label" \in DOMAIN fk
        THEN << <<PCode(ids[1]), IntVal(FUNCKEY_TYPES[fk.type])>>,
                <<PCode(ids[2]), IntVal(fk.line - 1)>>,
                <<PCode(ids[3]), StrVal(fk.label)>>,
                <<PCode(ids[4]), StrVal(fk.value)>> >>
        ELSE << <<PCode(ids[1]), IntVal(FUNCKEY_TYPES[fk.type])>>,
                <<PCode(ids[2]), IntVal(fk.line - 1)>>,
                <<PCode(ids[4]), StrVal(fk.value)>> >>

\* The documented pairs of the items whose position is in S, in traversal order
RECURSIVE DocLines(_, _, _, _)
DocLines(model, items, S, n) ==
    IF n > Len(items) THEN <<>>
    ELSE (IF n \in S THEN DocPairs(model, items[n]) ELSE <<>>)
         \o DocLines(model, items, S, n + 1)

\* C6: whatever keys _add_mpk emits, XX_mpk is, key after key in traversal
\* order, the pairs key-mode, account, label (only for a key that has a
\* label), value of each emitted key, with the values FUNCKEY_TYPES[type],
\* line-1, label, value and the codes P<id> of the per-model formula.
C6_PairsFollowFormula ==
    MpkReturned =>
        \E S \in SUBSET { n \in 1..Len(MpkItems) :
                            MpkItems[n][2].type \in DOMAIN FUNCKEY_TYPES } :
            MpkLines = DocLines(call.model, MpkItems, S, 1)

\* C6 witness: a GXP2160 emitted key 1 and key 19, both labelled (P323 and
\* P302 are the key mode and the label of key 1, P1440 and P1442 of key 19).
C6_Witness ==
    /\ MpkReturned
    /\ call.model = "GXP2160"
    /\ {PCode(323), PCode(302), PCode(1440), PCode(1442)} \subseteq Codes(MpkLines)
    /\ Len(MpkLines) = 8

\* C1: on a model the plugin names, a key contributes pairs to XX_mpk exactly
\* when its index is in the model's range and its type is supported, in
\* whatever order the funckeys mapping is traversed.
C1_ExactlyInRangeSupportedKeys ==
    (call.fn = "_add_mpk" /\ ret # NotCalled
        /\ call.model \in {"GXP2130", "GXP2140", "GXP2160", "GXP2170", "GXP2135"}) =>
        /\ ret.exc = "none"
        /\ \A n \in 1..Len(MpkItems) :
              (PCode(DocIds(call.model, int(MpkItems[n][1]))[1]) \in Codes(MpkLines))
              <=> (/\ InRange(call.model, int(MpkItems[n][1]))
                   /\ MpkItems[n][2].type \in DOMAIN FUNCKEY_TYPES)

\* C2: on a model the plugin does not name (or no model), _add_mpk returns
\* without raising and XX_mpk is the empty list.
C2_UnknownModelEmptyList ==
    (call.fn = "_add_mpk" /\ ret # NotCalled
        /\ call.model \notin {"GXP2130", "GXP2140", "GXP2160", "GXP2170", "GXP2135"}) =>
        /\ ret.exc = "none"
        /\ MpkLines = <<>>

\* C10: on GXP2130, GXP2160, GXP2140 and GXP2170 no parameter code occurs
\* twice in XX_mpk.
C10_NoCodeTwice ==
    (MpkReturned /\ call.model \in {"GXP2130", "GXP2140", "GXP2160", "GXP2170"}) =>
        \A a, b \in 1..Len(MpkLines) : a # b => MpkLines[a][1] # MpkLines[b][1]

(***************************************************************************)
(* The enrichment steps applied one at a time, in any order                *)
(***************************************************************************)
Steps == {"_check_lines_password", "_add_sip_transport", "_add_timezone",
          "_add_locale", "_add_dtmf_mode", "_add_fkeys", "_add_mpk",
          "_add_v2_fkeys", "_add_dns"}

\* Optional settings: absent, enriched, or present with a value the tables lack
OptSipLines ==
    { EmptyDict,
      "sip_lines" :> (("1" :> [password |-> "autoprov"]) @@ ("2" :> [password |-> "s3cret"])) }
OptSipTransport == { EmptyDict, "sip_transport" :> "tls" }
OptTimezone == { EmptyDict, "timezone" :> "Europe/Paris", "timezone" :> "America/Montreal" }
OptLocale == { EmptyDict, "locale" :> "fr_CA" }
OptDtmfMode == { EmptyDict, "sip_dtmf_mode" :> "SIP-INFO", "sip_dtmf_mode" :> "RFC2833" }
OptFunckeys ==
    { EmptyDict,
      "funckeys" :> <<>>,
      "funckeys" :> << <<<<1>>, [type |-> "conference", line |-> 1, value |-> "800"]>>,
                       <<<<8>>, [type |-> "blf", line |-> 2, label |-> "Bob", value |-> "1002"]>>,
                       <<<<9>>, [type |-> "speeddial", line |-> 1, value |-> "1001"]>> >> }
OptDns ==
    { EmptyDict,
      "dns_enabled" :> TRUE,
      ("dns_enabled" :> TRUE) @@ ("dns_ip" :> <<"1", "0", ".", "0", ".", "0", ".", "5", "3">>),
      ("dns_enabled" :> FALSE) @@ ("dns_ip" :> <<"1", "0", ".", "0", ".", "0", ".", "5", "3">>) }

RawConfigs ==
    { ("http_port" :> 8667) @@ a @@ b @@ c @@ d @@ e @@ f @@ g :
        a \in OptSipLines, b \in OptSipTransport, c \in OptTimezone, d \in OptLocale,
        e \in OptDtmfMode, f \in OptFunckeys, g \in OptDns }

InitSteps ==
    /\ call \in { [fn |-> "steps", raw_config |-> rc, model |-> m] :
                    rc \in RawConfigs, m \in {"GXP2130", None} }
    /\ ret = [exc |-> "none"]
    /\ raw_config = call.raw_config
    /\ pending = Steps
    /\ files = EmptyDict
    /\ configs = <<>>
    /\ last_op = <<>>

\* A step runs once, on the mapping the steps before it left, unless one raised
CanRun(st) == call.fn = "steps" /\ ret.exc = "none" /\ st \in pending

CheckLinesPassword ==
    /\ CanRun("_check_lines_password")
    /\ \E r \in {_check_lines_password(raw_config)} :
          /\ raw_config' = r.raw_config
          /\ ret' = [exc |-> r.exc]
    /\ pending' = pending \ {"_check_lines_password"}
    /\ UNCHANGED <<call, files, configs, last_op>>

AddSipTransport ==
    /\ CanRun("_add_sip_transport")
    /\ \E r \in {_add_sip_transport(raw_config)} :
          /\ raw_config' = r.raw_config
          /\ ret' = [exc |-> r.exc]
    /\ pending' = pending \ {"_add_sip_transport"}
    /\ UNCHANGED <<call, files, configs, last_op>>

AddTimezone ==
    /\ CanRun("_add_timezone")
    /\ \E r \in {_add_timezone(raw_config)} :
          /\ raw_config' = r.raw_config
          /\ ret' = [exc |-> r.exc]
    /\ pending' = pending \ {"_add_timezone"}
    /\ UNCHANGED <<call, files, configs, last_op>>

AddLocale ==
    /\ CanRun("_add_locale")
    /\ \E r \in {_add_locale(raw_config)} :
          /\ raw_config' = r.raw_config
          /\ ret' = [exc |-> r.exc]
    /\ pending' = pending \ {"_add_locale"}
    /\ UNCHANGED <<call, files, configs, last_op>>

AddDtmfMode ==
    /\ CanRun("_add_dtmf_mode")
    /\ \E r \in {_add_dtmf_mode(raw_config)} :
          /\ raw_config' = r.raw_config
          /\ ret' = [exc |-> r.exc]
    /\ pending' = pending \ {"_add_dtmf_mode"}
    /\ UNCHANGED <<call, files, configs, last_op>>

AddFkeys ==
    /\ CanRun("_add_fkeys")
    /\ \E r \in {_add_fkeys(raw_config)} :
          /\ raw_config' = r.raw_config
          /\ ret' = [exc |-> r.exc]
    /\ pending' = pending \ {"_add_fkeys"}
    /\ UNCHANGED <<call, files, configs, last_op>>

AddMpkStep ==
    /\ CanRun("_add_mpk")
    /\ \E r \in {_add_mpk(raw_config, call.model)} :
          /\ raw_config' = r.raw_config
          /\ ret' = [exc |-> r.exc]
    /\ pending' = pending \ {"_add_mpk"}
    /\ UNCHANGED <<call, files, configs, last_op>>

AddV2Fkeys ==
    /\ CanRun("_add_v2_fkeys")
    /\ \E r \in {_add_v2_fkeys(raw_config, call.model)} :
          /\ raw_config' = r.raw_config
          /\ ret' = [exc |-> r.exc]
    /\ pending' = pending \ {"_add_v2_fkeys"}
    /\ UNCHANGED <<call, files, configs, last_op>>

AddDns ==
    /\ CanRun("_add_dns")
    /\ \E r \in {_add_dns(raw_config)} :
          /\ raw_config' = r.raw_config
          /\ ret' = [exc |-> r.exc]
    /\ pending' = pending \ {"_add_dns"}
    /\ UNCHANGED <<call, files, configs, last_op>>

NextSteps ==
    \/ CheckLinesPassword
    \/ AddSipTransport
    \/ AddTimezone
    \/ AddLocale
    \/ AddDtmfMode
    \/ AddFkeys
    \/ AddMpkStep
    \/ AddV2Fkeys
    \/ AddDns

SpecSteps == InitSteps /\ [][NextSteps]_vars

\* The raw_config key(s) a step consumes
Consumes(st) ==
    CASE st = "_check_lines_password" -> {"sip_lines"}
      [] st = "_add_sip_transport"    -> {"sip_transport"}
      [] st = "_add_timezone"         -> {"timezone"}
      [] st = "_add_locale"           -> {"locale"}
      [] st = "_add_dtmf_mode"        -> {"sip_dtmf_mode"}
      [] st = "_add_fkeys"            -> {"funckeys"}
      [] st = "_add_mpk"              -> {"funckeys"}
      [] st = "_add_v2_fkeys"         -> {}
      [] st = "_add_dns"              -> {"dns_enabled", "dns_ip"}

\* C3: a step run while the raw_config key(s) it consumes are absent does not
\* raise and leaves raw_config exactly as it was.
C3_AbsentKeyNoOp ==
    [][ \A st \in Steps \ {"_add_v2_fkeys"} :
           (st \in pending /\ pending' = pending \ {st}
               /\ Consumes(st) \cap DOMAIN raw_config = {})
           => (ret'.exc = "none" /\ raw_config' = raw_config) ]_vars

\* C5: once every step has been applied without raising, in whatever order,
\* raw_config is the mapping the order of configure yields.
C5_AnyOrderSameResult ==
    (call.fn = "steps" /\ pending = {} /\ ret.exc = "none") =>
        /\ enrich(call.raw_config, call.model).exc = "none"
        /\ raw_config = enrich(call.raw_config, call.model).raw_config

\* C5 witness: all nine steps ran and every one of them enriched the mapping.
C5_Witness ==
    /\ call.fn = "steps" /\ pending = {} /\ ret.exc = "none"
    /\ {"XX_sip_transport", "XX_timezone", "XX_locale", "XX_dtmf_in_sip", "XX_fkeys",
        "XX_mpk", "XX_v2_fkeys", "XX_dns_4"} \subseteq DOMAIN raw_config
    /\ raw_config["XX_mpk"] # <<>>
    /\ raw_config["sip_lines"]["1"]["password"] = ""

(***************************************************************************)
(* configure and deconfigure calls for several devices, in any interleaving *)
(***************************************************************************)
Mac1 == <<"0", "0", ":", "0", "b", ":", "8", "2", ":", "4", "0", ":", "d", "5", ":", "5", "c">>
Mac2 == <<"0", "0", ":", "0", "b", ":", "8", "2", ":", "4", "0", ":", "d", "5", ":", "c", "5">>

\* Two devices with a MAC (one of them with no model) and one without
Devices ==
    << [mac |-> Mac1, model |-> "GXP2130"],
       [mac |-> Mac2],
       [model |-> "GXP2160"] >>

DeviceIds == DOMAIN Devices

DeviceRawConfigs ==
    { \* no HTTP port
      ("sip_lines" :> ("1" :> [password |-> "autoprov"])) @@ ("funckeys" :> <<>>),
      \* every step succeeds on every model
      ("http_port" :> 8667) @@ ("sip_lines" :> ("1" :> [password |-> "autoprov"]))
          @@ ("funckeys" :> <<>>) @@ ("timezone" :> "Europe/Paris"),
      \* _add_mpk raises when the device has no model
      ("http_port" :> 8667) @@ ("sip_lines" :> ("1" :> [password |-> "s3cret"]))
          @@ ("funckeys" :> << <<<<1>>, [type |-> "blf", line |-> 1, value |-> "1002"]>> >>),
      \* no sip_lines
      ("http_port" :> 8667) @@ ("locale" :> "fr_FR") }

NoConfig == [exc |-> "no configure call"]
NoOp == [op |-> "none"]

InitDevices ==
    /\ call = [fn |-> "none"]
    /\ ret = NotCalled
    /\ raw_config = EmptyDict
    /\ pending = {}
    /\ files = EmptyDict
    /\ configs = [d \in DeviceIds |-> NoConfig]
    /\ last_op = [d \in DeviceIds |-> NoOp]

Configure ==
    \E d \in DeviceIds, rc \in DeviceRawConfigs :
        \E r \in {configure(Devices[d], rc, files)} :
            /\ call' = [fn |-> "configure", device |-> d, raw_config |-> rc]
            /\ ret' = [exc |-> r.exc, raw_config |-> r.raw_config, rendered |-> r.rendered]
            /\ files' = r.files
            /\ configs' = [configs EXCEPT ![d] = [exc |-> r.exc, raw_config |-> r.raw_config]]
            /\ last_op' = IF r.exc = "none"
                          THEN [last_op EXCEPT ![d] = [op |-> "configure", raw_config |-> r.raw_config]]
                          ELSE last_op
            /\ UNCHANGED <<raw_config, pending>>

Deconfigure ==
    \E d \in DeviceIds :
        \E r \in {deconfigure(Devices[d], files)} :
            /\ call' = [fn |-> "deconfigure", device |-> d]
            /\ ret' = [exc |-> r.exc]
            /\ files' = r.files
            /\ last_op' = IF r.exc = "none"
                          THEN [last_op EXCEPT ![d] = [op |-> "deconfigure"]]
                          ELSE last_op
            /\ UNCHANGED <<raw_config, pending, configs>>

NextDevices == Configure \/ Deconfigure

SpecDevices == InitDevices /\ [][NextDevices]_vars

DevicePath(d) == tftpboot_path(_dev_specific_filename(Devices[d]))
WithMac == { d \in DeviceIds : Has(Devices[d], "mac") }

\* C4: configure checks http_port first and the MAC second, and a call that
\* fails either check raises (RawConfigError, resp. Exception) with
\* raw_config unchanged, nothing rendered and the file system unchanged.
C4_PreconditionsFirst ==
    [][ call'.fn = "configure" =>
          LET device == Devices[call'.device]
              rc     == call'.raw_config
              intact == /\ ret'.raw_config = rc
                        /\ ~ret'.rendered
                        /\ files' = files
          IN  /\ ~Has(rc, "http_port") => (ret'.exc = "RawConfigError" /\ intact)
              /\ (Has(rc, "http_port") /\ ~Has(device, "mac")) =>
                    (ret'.exc = "Exception" /\ intact) ]_vars

\* C4 witness: configure of a device with no MAC and a raw_config with no
\* http_port raised RawConfigError while another device's file exists.
C4_Witness ==
    /\ call.fn = "configure"
    /\ ~Has(call.raw_config, "http_port")
    /\ ~Has(Devices[call.device], "mac")
    /\ ret.exc = "RawConfigError"
    /\ Has(files, DevicePath(1))

C9_Own ==
    \A d \in WithMac :
        /\ last_op[d].op = "configure" =>
              /\ Has(files, DevicePath(d))
              /\ files[DevicePath(d)].context = last_op[d].raw_config
        /\ last_op[d].op # "configure" => ~Has(files, DevicePath(d))
        /\ (call.fn = "deconfigure" /\ call.device = d) => ret.exc = "none"

C9_Others ==
    call'.fn \in {"configure", "deconfigure"} =>
        /\ \A e \in DeviceIds \ {call'.device} : configs'[e] = configs[e]
        /\ \A p \in (DOMAIN files) \cup (DOMAIN files') :
              (call'.device \in WithMac /\ p = DevicePath(call'.device))
              \/ (Has(files, p) /\ Has(files', p) /\ files'[p] = files[p])

\* C9: in every interleaving of configure and deconfigure calls for devices
\* with distinct MACs, a call changes no file but cfg<mac>.xml of its own
\* device and no other device's raw_config; a device's file is there (with the
\* content of that call) after its latest successful configure and is not
\* there after its latest deconfigure; deconfigure never raises, file or not.
C9_DevicesIndependent == []C9_Own /\ [][C9_Others]_vars

\* C9 witness: device 2, once configured, was just deconfigured a second time
\* (its file already absent) while the file of device 1 is in place.
C9_Witness ==
    /\ call.fn = "deconfigure" /\ call.device = 2
    /\ last_op[2].op = "deconfigure"
    /\ configs[2].exc = "none"
    /\ last_op[1].op = "configure"
    /\ Has(files, DevicePath(1)) /\ ~Has(files, DevicePath(2))

(***************************************************************************)
(* The User-Agent extractor.  A User-Agent is the sequence of its words    *)
(* (the substrings between single spaces), each a sequence of characters;  *)
(* "xE9" stands for one byte above 0x7F.                                    *)
(***************************************************************************)
Digits == { "0", "1", "2", "3", "4", "5", "6", "7", "8", "9" }
HexLower == {"a", "b", "c", "d", "e", "f"}
HexUpper == {"A", "B", "C", "D", "E", "F"}
Letters ==
    { "a", "b", "c", "d", "e", "f", "g", "h", "i", "j", "k", "l", "m",
      "n", "o", "p", "q", "r", "s", "t", "u", "v", "w", "x", "y", "z",
      "A", "B", "C", "D", "E", "F", "G", "H", "I", "J", "K", "L", "M",
      "N", "O", "P", "Q", "R", "S", "T", "U", "V", "W", "X", "Y", "Z" }

\* \w of a byte pattern compiled without flags: [a-zA-Z0-9_]
IsWordChar(c) == c \in Letters \cup Digits \cup {"_"}
IsHex(c) == c \in Digits \cup HexLower \cup HexUpper
IsAscii(c) == c # "xE9"

w_Grandstream == <<"G", "r", "a", "n", "d", "s", "t", "r", "e", "a", "m">>
w_Model == <<"M", "o", "d", "e", "l">>
w_HW == <<"H", "W">>
w_SW == <<"S", "W">>
w_DevId == <<"D", "e", "v", "I", "d">>
w_GXP2000 == <<"G", "X", "P", "2", "0", "0", "0">>

NoMatch == [matched |-> FALSE]

\* ^Grandstream Model HW (\w+)(?: V[^ ]+)? SW ([^ ]+) DevId ([^ ]+)
ua_regex_1(ua) ==
    LET k == IF Len(ua) >= 5 /\ ua[5] = w_SW THEN 5 ELSE 6
        hw_ok == k = 5 \/ (Len(ua) >= 6 /\ Len(ua[5]) >= 2 /\ ua[5][1] = "V")
    IN  IF /\ Len(ua) >= k + 3
           /\ ua[1] = w_Grandstream /\ ua[2] = w_Model /\ ua[3] = w_HW
           /\ \A j \in 1..Len(ua[4]) : IsWordChar(ua[4][j])
           /\ hw_ok
           /\ ua[k] = w_SW
           /\ ua[k + 2] = w_DevId
        THEN [matched |-> TRUE, groups |-> <<ua[4], ua[k + 1], ua[k + 3]>>]
        ELSE NoMatch

\* The words at which ":([^ ]+)\) DevId ([^ ]+)" can match: a word ending in
\* ")" with a ":" at least two characters before its end, then DevId, then a word
ua_regex_2_at(ua) ==
    { k \in 3..(Len(ua) - 2) :
        /\ ua[k][Len(ua[k])] = ")"
        /\ \E j \in 1..(Len(ua[k]) - 2) : ua[k][j] = ":"
        /\ ua[k + 1] = w_DevId }

\* ^Grandstream (GXP2000) .*:([^ ]+)\) DevId ([^ ]+)   (".*" is greedy)
ua_regex_2(ua) ==
    IF /\ Len(ua) >= 5
       /\ ua[1] = w_Grandstream /\ ua[2] = w_GXP2000
       /\ ua_regex_2_at(ua) # {}
    THEN LET k == CHOOSE k \in ua_regex_2_at(ua) : \A o \in ua_regex_2_at(ua) : o <= k
             w == ua[k]
             j == CHOOSE j \in 1..(Len(w) - 2) :
                     w[j] = ":" /\ \A o \in (j + 1)..(Len(w) - 2) : w[o] # ":"
         IN  [matched |-> TRUE, groups |-> <<ua[2], SubSeq(w, j + 1, Len(w) - 1), ua[k + 2]>>]
    ELSE NoMatch

_UA_REGEX_LIST(n, ua) == IF n = 1 THEN ua_regex_1(ua) ELSE ua_regex_2(ua)

\* str.decode('ascii') raises UnicodeDecodeError, a ValueError, on a byte above 0x7F
decodes_ascii(str) == \A j \in 1..Len(str) : IsAscii(str[j])

lower(c) ==
    CASE c = "A" -> "a" [] c = "B" -> "b" [] c = "C" -> "c"
      [] c = "D" -> "d" [] c = "E" -> "e" [] c = "F" -> "f" [] OTHER -> c

\* provd.util.norm_mac accepts twelve hexadecimal digits, or six groups of one
\* or two hexadecimal digits separated by ":" or by "-"
mac_tokens(str) ==
    IF \A j \in 1..Len(str) : str[j] \notin {":", "-"}
    THEN IF Len(str) = 12 THEN [n \in 1..6 |-> SubSeq(str, 2 * n - 1, 2 * n)] ELSE <<>>
    ELSE IF \E j \in 1..Len(str) : str[j] = ":" THEN split(str, ":") ELSE split(str, "-")

mac_is_valid(str) ==
    LET tokens == mac_tokens(str)
    IN  /\ Len(tokens) = 6
        /\ \A n \in 1..6 : /\ Len(tokens[n]) \in {1, 2}
                           /\ \A j \in 1..Len(tokens[n]) : IsHex(tokens[n][j])

\* The normalized form: six lower-case two-digit groups joined by ":"
norm_mac(str) ==
    LET tokens == mac_tokens(str)
        two(t) == IF Len(t) = 1 THEN <<"0", lower(t[1])>> ELSE <<lower(t[1]), lower(t[2])>>
    IN  two(tokens[1]) \o <<":">> \o two(tokens[2]) \o <<":">> \o two(tokens[3]) \o <<":">>
        \o two(tokens[4]) \o <<":">> \o two(tokens[5]) \o <<":">> \o two(tokens[6])

NoResult == [exc |-> "none", found |-> FALSE]

\* The for loop over _UA_REGEX_LIST, from pattern n on
RECURSIVE extract_loop(_, _)
extract_loop(ua, n) ==
    IF n > 2 THEN NoResult
    ELSE LET m == _UA_REGEX_LIST(n, ua)
         IN  IF ~m.matched THEN extract_loop(ua, n + 1)
             ELSE LET raw_model   == m.groups[1]
                      raw_version == m.groups[2]
                      raw_mac     == m.groups[3]
                  IN  IF ~decodes_ascii(raw_mac) \/ ~mac_is_valid(raw_mac)
                      THEN extract_loop(ua, n + 1)        \* ValueError: logged
                      ELSE IF ~decodes_ascii(raw_model) \/ ~decodes_ascii(raw_version)
                      THEN [exc |-> "UnicodeDecodeError", found |-> FALSE]
                      ELSE [exc |-> "none", found |-> TRUE,
                            dev_info |-> [vendor |-> w_Grandstream, model |-> raw_model,
                                          version |-> raw_version, mac |-> norm_mac(raw_mac)]]

_extract_from_ua(ua) == extract_loop(ua, 1)

(***************************************************************************)
(* Inputs of _extract_from_ua                                              *)
(***************************************************************************)
MaxDevIds == 2

UaModels == { <<"G", "X", "P", "2", "1", "6", "0">>, <<"G", "X", "P", "-", "2", "1", "6", "0">> }
UaHardware == { <<>>, << <<"V", "2", ".", "2", "A">> >> }
UaSoftware == { w_SW, <<"F", "W">> }
UaVersions == { <<"1", ".", "0", ".", "4", ".", "2", "3">>, <<"1", ".", "0", ".", "xE9">> }
UaMacs ==
    { <<"0", "0", "0", "b", "8", "2", "4", "0", "d", "5", "5", "c">>,
      <<"0", "0", "0", "B", "8", "2", "4", "0", "D", "5", "5", "C">>,
      <<"0", "0", ":", "0", "b", ":", "8", "2", ":", "4", "0", ":", "d", "5", ":", "5", "c">>,
      <<"0", "-", "b", "-", "8", "2", "-", "4", "0", "-", "d", "5", "-", "5", "c">>,
      <<"0", "0", "0", "b", "8", "2", "4", "0", "d", "5">>,
      <<"0", "0", "0", "b", "8", "2", "4", "0", "d", "5", "5", "g">>,
      <<"0", "0", "0", "b", "8", "2", "4", "0", "d", "5", "xE9", "c">> }
UaTails == { <<>>, << <<"e", "x", "t", "r", "a">> >> }

\* Grandstream Model HW GXP2160 [V2.2A] SW 1.0.4.23 DevId 000b8240d55c
UaModern ==
    { <<w_Grandstream, w_Model, w_HW, m>> \o hw \o <<sw, v, w_DevId, mac>> \o t :
        m \in UaModels, hw \in UaHardware, sw \in UaSoftware, v \in UaVersions,
        mac \in UaMacs, t \in UaTails }

UaBins == { <<"(", "g", "x", "p", ".", "b", "i", "n", ":", "1", ".", "2", "/", "b", "o", "o", "t", ".", "b", "i", "n", ":", "1", ".", "1", ")">>, <<"(", "b", "o", "o", "t", ".", "b", "i", "n", ":", ")">>, <<"(", "b", "o", "o", "t", ".", "b", "i", "n", ":", "1", ".", "1">> }
UaLegacyMacs == { <<"0", "0", "0", "b", "8", "2", "2", "7", "2", "6", "c", "8">>, <<"0", "0", "0", "b", "8", "2", "2", "7">> }

\* Grandstream GXP2000 (gxp.bin:1.2/boot.bin:1.1) DevId 000b822726c8, the part
\* from the firmware list on occurring up to MaxDevIds times
UaLegacyGroups ==
    UNION { [1..n -> { <<b, w_DevId, mac>> : b \in UaBins, mac \in UaLegacyMacs }] :
            n \in 1..MaxDevIds }

RECURSIVE flatten(_)
flatten(seqs) == IF seqs = <<>> THEN <<>> ELSE Head(seqs) \o flatten(Tail(seqs))

UaLegacy == { <<w_Grandstream, w_GXP2000>> \o flatten(g) : g \in UaLegacyGroups }

UaOthers == { << <<"M", "o", "z", "i", "l", "l", "a", "/", "5", ".", "0">> >>, <<w_Grandstream>> }

UserAgents == UaModern \cup UaLegacy \cup UaOthers

InitUa ==
    /\ call \in { [fn |-> "_extract_from_ua", ua |-> ua] : ua \in UserAgents }
    /\ ret = NotCalled
    /\ raw_config = EmptyDict
    /\ pending = {}
    /\ files = EmptyDict
    /\ configs = <<>>
    /\ last_op = <<>>

ExtractFromUa ==
    /\ call.fn = "_extract_from_ua"
    /\ ret = NotCalled
    /\ ret' = _extract_from_ua(call.ua)
    /\ UNCHANGED <<call, raw_config, pending, files, configs, last_op>>

NextUa == ExtractFromUa

SpecUa == InitUa /\ [][NextUa]_vars

IsNormedMac(mac) ==
    /\ Len(mac) = 17
    /\ \A j \in 1..17 : IF j % 3 = 0 THEN mac[j] = ":" ELSE mac[j] \in Digits \cup HexLower

\* A match whose DevId norm_mac accepts
WellFormed(m) ==
    m.matched /\ decodes_ascii(m.groups[3]) /\ mac_is_valid(m.groups[3])

Descriptor(m) ==
    [vendor |-> w_Grandstream, model |-> m.groups[1], version |-> m.groups[2],
     mac |-> norm_mac(m.groups[3])]

\* C7: _extract_from_ua never raises; it returns no result or a descriptor
\* holding exactly vendor 'Grandstream', model, version and a normalized mac;
\* no result when neither pattern matches; the descriptor of the first pattern
\* that matches with a well-formed DevId when there is one; no result otherwise.
C7_ExtractorTotal ==
    (call.fn = "_extract_from_ua" /\ ret # NotCalled) =>
        LET m1 == ua_regex_1(call.ua)
            m2 == ua_regex_2(call.ua)
        IN  /\ ret.exc = "none"
            /\ ret.found =>
                  /\ DOMAIN ret.dev_info = {"vendor", "model", "version", "mac"}
                  /\ ret.dev_info.vendor = w_Grandstream
                  /\ IsNormedMac(ret.dev_info.mac)
            /\ (~m1.matched /\ ~m2.matched) => ~ret.found
            /\ WellFormed(m1) => (ret.found /\ ret.dev_info = Descriptor(m1))
            /\ (~WellFormed(m1) /\ WellFormed(m2)) =>
                  (ret.found /\ ret.dev_info = Descriptor(m2))
            /\ (~WellFormed(m1) /\ ~WellFormed(m2)) => ~ret.found

(***************************************************************************)
(* The support-level associator                                            *)
(***************************************************************************)
\* provd.devices.pgasso
IMPROBABLE_SUPPORT == 100
UNKNOWN_SUPPORT == 200
COMPLETE_SUPPORT == 500
FULL_SUPPORT == 600

\* No version: None, which has no startswith
NoVersion == <<"<None>">>

startswith(str, prefix) ==
    Len(prefix) <= Len(str) /\ SubSeq(str, 1, Len(prefix)) = prefix

\* self is the associator's configuration: _models and _version
_do_associate(self, vendor, model, version) ==
    IF vendor = "Grandstream" THEN
        IF model \in self._models THEN
            IF version = NoVersion THEN [exc |-> "AttributeError"]
            ELSE IF startswith(version, self._version)
                 THEN [exc |-> "none", level |-> FULL_SUPPORT]
                 ELSE [exc |-> "none", level |-> COMPLETE_SUPPORT]
        ELSE [exc |-> "none", level |-> UNKNOWN_SUPPORT]
    ELSE [exc |-> "none", level |-> IMPROBABLE_SUPPORT]

Associators ==
    { [_models |-> ms, _version |-> v] :
        ms \in { {"GXP2130", "GXP2160"}, {"GXP2160"} },
        v \in { <<"1", ".", "0", ".", "1", "1", ".", "4", "8">>, <<"1", ".", "0">> } }

Vendors == {"Grandstream", "grandstream", "Cisco"}
AssocModels == {"GXP2130", "GXP2160", "GXP1405", None}
Versions ==
    { <<"1", ".", "0", ".", "1", "1", ".", "4", "8">>, <<"1", ".", "0", ".", "1", "1", ".", "4", "8", "0">>, <<"1", ".", "0", ".", "4", ".", "2", "3">>, <<"1", ".">>, <<>>, NoVersion }

InitAssociate ==
    /\ call \in { [fn |-> "_do_associate", self |-> a, vendor |-> vd, model |-> m, version |-> v] :
                    a \in Associators, vd \in Vendors, m \in AssocModels, v \in Versions }
    /\ ret = NotCalled
    /\ raw_config = EmptyDict
    /\ pending = {}
    /\ files = EmptyDict
    /\ configs = <<>>
    /\ last_op = <<>>

DoAssociate ==
    /\ call.fn = "_do_associate"
    /\ ret = NotCalled
    /\ ret' = _do_associate(call.self, call.vendor, call.model, call.version)
    /\ UNCHANGED <<call, raw_config, pending, files, configs, last_op>>

NextAssociate == DoAssociate

SpecAssociate == InitAssociate /\ [][NextAssociate]_vars

\* C8: _do_associate returns, for every vendor, model and version (absent ones
\* included), one of the four levels IMPROBABLE < UNKNOWN < COMPLETE < FULL:
\* IMPROBABLE for another vendor, UNKNOWN for a model outside the configured
\* set, COMPLETE for a configured model whose version does not start with the
\* configured prefix, FULL when it does.
C8_FourLevels ==
    (call.fn = "_do_associate" /\ ret # NotCalled) =>
        /\ IMPROBABLE_SUPPORT < UNKNOWN_SUPPORT
        /\ UNKNOWN_SUPPORT < COMPLETE_SUPPORT
        /\ COMPLETE_SUPPORT < FULL_SUPPORT
        /\ ret.exc = "none"
        /\ ret.level =
             IF call.vendor # "Grandstream" THEN IMPROBABLE_SUPPORT
             ELSE IF call.model \notin call.self._models THEN UNKNOWN_SUPPORT
             ELSE IF call.version # NoVersion /\ startswith(call.version, call.self._version)
                  THEN FULL_SUPPORT
                  ELSE COMPLETE_SUPPORT

====
